---- MODULE Spec2Model ----
(***************************************************************************)
(* fs-delta-tracker: the crawl of walk_directory (src/lib/crawler.rs) with *)
(* its four concurrent activities -- the coordinator (the async function   *)
(* itself), the blocking walk task and its traversal workers, the writer   *)
(* thread and the progress thread -- embedded in the orchestrator of       *)
(* src/bin/standalone.rs (start_scan, walk_directory, load_tsv_file, the   *)
(* delta SQL, clear_staging, finalize_scan, remove_file).                  *)
(***************************************************************************)
EXTENDS Integers, Sequences, FiniteSets, Bags, TLC

\* ------------------------------------------------------------------ bounds
\* Number of directory entries of the tree under the root (entry 1 is the root).
MaxEntries == 4
\* Number of traversal workers of the parallel walker.
NumWorkers == 2
\* Number of times the ticker fires during one crawl.
MaxTicks == 2
MaxRows == 2
MaxNameLen == 3

\* ------------------------------------------------------- the directory tree
Entries == 1..MaxEntries
Root == 1
Workers == 1..NumWorkers

\* The tree has the shape of a binary heap: entry e > 1 lies in entry e \div 2.
Parent(e) == e \div 2

\* What the walker hands to the visitor for an entry:
\*   "err"    an Err result (for the root: the root path cannot be read, it
\*            does not exist)
\*   "notype" Ok(ent) with ent.file_type() = None (the walker yields it only
\*            for a root given as standard input)
\*   "dir"    a directory, "other" any other non-regular file (symlink, fifo)
\*   "file"   a regular file whose metadata can be read
\*   "nometa" a regular file whose ent.metadata() fails
\*   "absent" no such entry: its parent is not a directory, or holds fewer
\*            entries
RootKinds == {"err", "notype", "dir", "other", "file", "nometa"}
ChildKinds == {"err", "dir", "other", "file", "nometa"}

\* The scan id the metadata store assigns to this run.
ScanId == 1

\* The Sender handles of the record channel: the coordinator's tx, the walk
\* task's tx2 and the clone each worker's visitor holds.
Tx == <<"tx", 0>>
Tx2 == <<"tx2", 0>>
WorkerTx(w) == <<"worker", w>>

VARIABLES
  kind,         \* the tree: entry -> kind
  mainPc,       \* position of main (standalone.rs)
  scanRun,      \* the row of filesystem.scan_runs of this run
  staging,      \* rows of filesystem.staging_files
  deltaDone,    \* the delta SQL has run for this scan id
  metadata,     \* the run metadata map returned by walk_directory
  coPc,         \* position of walk_directory (the coordinator)
  result,       \* what walk_directory returned: "none", "ok", "err"
  senders,      \* live Sender handles of the record channel
  chan,         \* the unbounded record channel
  rxAlive,      \* the Receiver of the record channel is not dropped
  counter,      \* AtomicU64 counter
  done,         \* AtomicBool done
  wrPc,         \* position of the writer thread
  buf,          \* lines in the BufWriter, not yet in the file
  file,         \* lines of the output artifact
  fileExists,   \* the output artifact exists
  monPc,        \* position of the progress thread
  tickPending,  \* the ticker channel holds a tick
  nticks,       \* ticks delivered so far
  lastCnt,      \* last_cnt of the progress thread
  wkPc,         \* position of the blocking walk task
  pending,      \* entries on the walker's work stacks
  wpc,          \* worker -> position
  wline,        \* worker -> the entry whose line it is about to send
  \* history variables (not program state)
  sent,         \* every line handed to tx.send, in order
  ioFailed,     \* a writer I/O operation has failed
  emitLog,      \* progress lines: <<total, the stop had been issued>>
  monExits,     \* times the progress thread left its loop
  opLog,        \* the operations main has performed: <<operation, succeeded>>
  \* state of the other specifications
  scanId,       \* the scan id of this run (0 before it has one)
  fileChanges,  \* rows of filesystem.file_changes of this scan id
  prev,         \* what an earlier crawl of the same tree sent and wrote
  orchPc,       \* two runs: run -> position of its main
  orchId,       \* two runs: run -> its scan id (0 before start_scan)
  orchLoaded,   \* two runs: run -> the lines its load_tsv_file loaded
  orchSeen,     \* two runs: run -> its staging rows when its delta SQL ran
  scanTable,    \* two runs: the rows of filesystem.scan_runs, by scan id
  tmpFiles,     \* two runs: scan id -> the artifact scan_<id>.tsv
  sentBy,       \* the worker that made each send of `sent`
  fmtName,      \* line format: the file name of an entry, as characters
  fmtLine       \* line format: the line the visitor builds for it (<<>>: none)

vars == <<kind, mainPc, scanRun, staging, deltaDone, metadata, coPc, result,
          senders, chan, rxAlive, counter, done, wrPc, buf, file, fileExists,
          monPc, tickPending, nticks, lastCnt, wkPc, pending, wpc, wline,
          sent, ioFailed, emitLog, monExits, opLog, scanId, fileChanges,
          prev, orchPc, orchId, orchLoaded, orchSeen, scanTable, tmpFiles,
          sentBy, fmtName, fmtLine>>

fmtVars == <<fmtName, fmtLine>>

twoVars == <<orchPc, orchId, orchLoaded, orchSeen, scanTable, tmpFiles>>

mainVars == <<mainPc, scanRun, staging, deltaDone, metadata, fileChanges,
             opLog>>
coVars == <<coPc, result>>
wrVars == <<wrPc, buf, file, fileExists, ioFailed>>
monVars == <<monPc, tickPending, nticks, lastCnt, emitLog, monExits>>
wkVars == <<wkPc, pending, wpc, wline>>

\* The entries the walker finds when it reads directory e.
Children(e) == {c \in Entries : c > 1 /\ Parent(c) = e /\ kind[c] # "absent"}

\* ------------------------------------------------------------------ helpers
\* The line of an entry (crawler.rs: format!); the fields beyond the identity
\* of the entry and the scan id play no part in the crawl's concurrency.
Line(e) == [entry |-> e, scan_id |-> scanId]

\* Variant: the visitor does not look at the result of ent.metadata().
ShouldEmit_NoMetaCheck(e) == kind[e] \in {"file", "nometa"}

\* Variant: a visitor gives up an entry while the channel holds a line.
ShouldEmit_DropWhenBusy(e) == kind[e] = "file" /\ chan = <<>>

\* The visitor's nested conditions: Ok(ent), Some(ft), ft.is_file(), Ok(meta).
ShouldEmit(e) == kind[e] = "file"

\* Variant: the writer stops at the first moment the channel is empty.
RecvDisconnected_Empty == chan = <<>>

\* `for line in rx` ends: the channel is empty and every Sender is dropped.
RecvDisconnected == chan = <<>> /\ senders = {}

\* Number of occurrences of x in sequence s.
Count(x, s) == Cardinality({i \in 1..Len(s) : s[i] = x})

\* The bag of the elements of sequence s.
RECURSIVE BagOf(_)
BagOf(s) == IF s = <<>> THEN EmptyBag ELSE BagOf(Tail(s)) (+) SetToBag({Head(s)})

\* SQL NULL, and the absence of a value in the run metadata map.
Null == -1

\* No row of filesystem.scan_runs for this run (its columns as in data.rs
\* 135-145; finished stands for finished_at IS NOT NULL; scan_metadata is
\* <<>> for NULL and <<map>> for a value).
NoRow ==
  [exists |-> FALSE, finished |-> FALSE, total_paths_count |-> Null,
   added_files_count |-> Null, modified_files_count |-> Null,
   removed_files_count |-> Null, new_data_mb |-> Null,
   modified_data_mb |-> Null, deleted_data_mb |-> Null,
   scan_metadata |-> <<>>]

\* No line is being formatted.
FmtIdle == fmtName = <<>> /\ fmtLine = <<>>

\* The two orchestrator runs of the two-run model.
Runs == {"A", "B"}

\* The state the two-run model and the repeated crawl keep while the
\* single-run model runs.
TwoIdle ==
  /\ orchPc = [r \in Runs |-> "idle"]
  /\ orchId = [r \in Runs |-> 0]
  /\ orchLoaded = [r \in Runs |-> <<>>]
  /\ orchSeen = [r \in Runs |-> <<>>]
  /\ scanTable = <<>>
  /\ tmpFiles = <<>>

\* --------------------------------------------------------------------- Init
\* The trees a crawl can be given.
TreeInit ==
  /\ kind \in [Entries -> RootKinds \cup {"absent"}]
  /\ kind[Root] \in RootKinds
  /\ \A e \in Entries \ {Root} :
       IF kind[Parent(e)] = "dir" THEN kind[e] \in ChildKinds \cup {"absent"}
                                  ELSE kind[e] = "absent"

\* No crawl has run before this one.
NoPrev == [ran |-> FALSE, sent |-> {}, file |-> <<>>, ioFailed |-> FALSE]

\* The state of a process before walk_directory is called: no channel, no
\* thread, counter 0, no artifact.
CrawlInit ==
  /\ coPc = "idle"
  /\ result = "none"
  /\ senders = {}
  /\ chan = <<>>
  /\ rxAlive = FALSE
  /\ counter = 0
  /\ done = FALSE
  /\ wrPc = "unborn"
  /\ buf = <<>>
  /\ file = <<>>
  /\ fileExists = FALSE
  /\ monPc = "unborn"
  /\ tickPending = FALSE
  /\ nticks = 0
  /\ lastCnt = 0
  /\ wkPc = "unborn"
  /\ pending = {}
  /\ wpc = [w \in Workers |-> "unborn"]
  /\ wline = [w \in Workers |-> 0]
  /\ sent = <<>>
  /\ sentBy = <<>>
  /\ ioFailed = FALSE
  /\ emitLog = <<>>
  /\ monExits = 0

\* The keys the run metadata map gets: from walk_directory (crawler.rs
\* 174-187), from main (standalone.rs 106-118) and from finalize_scan
\* (data.rs 172-197).
CrawlKeys ==
  {"data_root", "crawl_timer_duration_s", "total_files_processed",
   "crawler_files_per_second"}

MainKeys == {"sql_execution_time_s", "hostname"}

FinalizeKeys ==
  {"scan_id", "completed_at", "added_files_count", "modified_files_count",
   "removed_files_count", "new_data_mb", "modified_data_mb", "deleted_data_mb"}

MetaKeys == CrawlKeys \cup MainKeys \cup FinalizeKeys

\* The map with no key (Null: the key is not in the map).
NoMetadata == [k \in MetaKeys |-> Null]

\* The keys of a map.
KeysOf(meta) == {k \in MetaKeys : meta[k] # Null}

\* The store and main's locals before main has done anything.
StoreInit ==
  /\ scanRun = NoRow
  /\ staging = <<>>
  /\ deltaDone = FALSE
  /\ metadata = NoMetadata
  /\ opLog = <<>>
  /\ fileChanges = {}

Init ==
  /\ TreeInit
  /\ mainPc = "start_scan"
  /\ scanId = 0
  /\ StoreInit
  /\ CrawlInit
  /\ prev = NoPrev
  /\ TwoIdle
  /\ FmtIdle


\* ------------------------------------------- the orchestrator (standalone.rs)
\* What the crawl leaves alone besides the tree: the run's scan id, the
\* history of an earlier crawl and the state of the two-run model.
envVars == <<kind, scanId, prev, twoVars, fmtVars>>

\* Variant: the INSERT of start_scan writes zero counts.
OpenRow_ZeroCounts ==
  [exists |-> TRUE, finished |-> FALSE, total_paths_count |-> 0,
   added_files_count |-> 0, modified_files_count |-> 0,
   removed_files_count |-> 0, new_data_mb |-> 0, modified_data_mb |-> 0,
   deleted_data_mb |-> 0, scan_metadata |-> <<>>]

\* data.rs 56-64: the row start_scan inserts: scan_root and started_at only,
\* every other column NULL.
OpenRow == [NoRow EXCEPT !.exists = TRUE]

\* data::start_scan: INSERT INTO scan_runs (scan_root, started_at) RETURNING
\* scan_id.
MainStartScan ==
  /\ mainPc = "start_scan"
  /\ \E ok \in BOOLEAN :
       /\ opLog' = Append(opLog, <<"start_scan", ok>>)
       /\ IF ok
          THEN /\ scanRun' = OpenRow
               /\ scanId' = ScanId
               /\ mainPc' = "walk"
          ELSE /\ mainPc' = "failed"
               /\ UNCHANGED <<scanRun, scanId>>
  /\ UNCHANGED <<kind, prev, twoVars, fmtVars, staging, deltaDone, fileChanges,
                 metadata, coVars, senders, chan, rxAlive, counter, done,
                 wrVars, monVars, wkVars, sent, sentBy>>

\* walk_directory(...).await.map_err(...)?
MainWalkReturned ==
  /\ mainPc = "walk"
  /\ coPc = "returned"
  /\ opLog' = Append(opLog, <<"walk", result = "ok">>)
  /\ mainPc' = IF result = "ok" THEN "load" ELSE "failed"
  /\ UNCHANGED <<envVars, scanRun, staging, deltaDone, fileChanges, metadata,
                 coVars, senders, chan, rxAlive, counter, done, wrVars,
                 monVars, wkVars, sent, sentBy>>

\* Variant: main goes on to the delta computation when the load failed.
MainLoad_IgnoreError ==
  /\ mainPc = "load"
  /\ \E ok \in BOOLEAN :
       /\ opLog' = Append(opLog, <<"load", fileExists /\ ok>>)
       /\ staging' = IF fileExists /\ ok THEN staging \o file ELSE staging
       /\ mainPc' = "sql"
  /\ UNCHANGED <<envVars, scanRun, deltaDone, fileChanges, metadata, coVars,
                 senders, chan, rxAlive, counter, done, wrVars, monVars,
                 wkVars, sent, sentBy>>

\* data::load_tsv_file: File::open, then COPY ... FROM STDIN line by line.
MainLoad ==
  /\ mainPc = "load"
  /\ \E ok \in BOOLEAN :
       /\ opLog' = Append(opLog, <<"load", fileExists /\ ok>>)
       /\ IF fileExists /\ ok
          THEN /\ staging' = staging \o file
               /\ mainPc' = "sql"
          ELSE /\ mainPc' = "failed"
               /\ UNCHANGED staging
  /\ UNCHANGED <<envVars, scanRun, deltaDone, fileChanges, metadata, coVars,
                 senders, chan, rxAlive, counter, done, wrVars, monVars,
                 wkVars, sent, sentBy>>

\* The rows the delta computation can write to filesystem.file_changes for
\* this scan id (the SQL template is an asset outside the source): each with
\* a change type and the new and old size in bytes, either of which may be
\* NULL.
ChangeRows ==
  { [path |-> 1, change_type |-> "added",    new_size |-> 2,    old_size |-> Null],
    [path |-> 2, change_type |-> "modified", new_size |-> 3,    old_size |-> 1],
    [path |-> 3, change_type |-> "deleted",  new_size |-> Null, old_size |-> 2],
    [path |-> 4, change_type |-> "added",    new_size |-> 0,    old_size |-> Null] }

\* The outcomes of the delta computation the model draws from.
DeltaResults == {{}} \cup {S \in SUBSET ChangeRows : Cardinality(S) \in {1, 4}}

\* Variant: main goes on to the purge when the delta computation failed.
MainSql_IgnoreError ==
  /\ mainPc = "sql"
  /\ \E ok \in BOOLEAN :
       /\ opLog' = Append(opLog, <<"sql", ok>>)
       /\ deltaDone' = (deltaDone \/ ok)
       /\ IF ok THEN fileChanges' \in DeltaResults ELSE UNCHANGED fileChanges
  /\ mainPc' = "clear"
  /\ metadata' = [metadata EXCEPT !.sql_execution_time_s = 1]
  /\ UNCHANGED <<envVars, scanRun, staging, coVars, senders, chan, rxAlive,
                 counter, done, wrVars, monVars, wkVars, sent, sentBy>>

\* db::execute_sql_template_str(process_staging_v2.sql, scan_id)
MainSql ==
  /\ mainPc = "sql"
  /\ \E ok \in BOOLEAN :
       /\ opLog' = Append(opLog, <<"sql", ok>>)
       /\ IF ok
          THEN /\ deltaDone' = TRUE
               /\ fileChanges' \in DeltaResults
               /\ mainPc' = "clear"
          ELSE /\ mainPc' = "failed"
               /\ UNCHANGED <<deltaDone, fileChanges>>
  /\ metadata' = IF mainPc' = "clear"
                 THEN [metadata EXCEPT !.sql_execution_time_s = 1]
                 ELSE metadata
  /\ UNCHANGED <<envVars, scanRun, staging, coVars, senders, chan, rxAlive,
                 counter, done, wrVars, monVars, wkVars, sent, sentBy>>

\* Variant: DELETE FROM filesystem.staging_files without the WHERE clause.
PurgeRows_All(rows, id) == <<>>

\* data.rs 6: DELETE FROM filesystem.staging_files WHERE scan_id = $1
PurgeRows(rows, id) == SelectSeq(rows, LAMBDA r : r.scan_id # id)

\* data::clear_staging, called with `?` before finalize_scan
MainClear ==
  /\ mainPc = "clear"
  /\ \E ok \in BOOLEAN :
       /\ opLog' = Append(opLog, <<"clear", ok>>)
       /\ IF ok
          THEN /\ staging' = PurgeRows(staging, scanId)
               /\ mainPc' = "finalize"
          ELSE /\ mainPc' = "failed"
               /\ UNCHANGED staging
  /\ metadata' = IF mainPc' = "finalize"
                 THEN [metadata EXCEPT !.hostname = 1]
                 ELSE metadata
  /\ UNCHANGED <<envVars, scanRun, deltaDone, fileChanges, coVars, senders,
                 chan, rxAlive, counter, done, wrVars, monVars, wkVars, sent, sentBy>>

\* data.rs 17-24: SELECT COUNT(*) ... WHERE scan_id = $1 AND change_type = $2
CountOf(rows, t) == Cardinality({r \in rows : r.change_type = t})

\* COALESCE(x, 0)
Coalesce0(x) == IF x = Null THEN 0 ELSE x

Abs(x) == IF x < 0 THEN -x ELSE x

RECURSIVE SumAbsDelta(_)
SumAbsDelta(rows) ==
  IF rows = {} THEN 0
  ELSE LET r == CHOOSE x \in rows : TRUE
       IN  Abs(Coalesce0(r.new_size) - Coalesce0(r.old_size))
             + SumAbsDelta(rows \ {r})

\* Variant: SUM(...) without the outer COALESCE: NULL when no row matches.
SizeOf_NoCoalesce(rows, t) ==
  IF {r \in rows : r.change_type = t} = {} THEN Null
  ELSE SumAbsDelta({r \in rows : r.change_type = t})

\* data.rs 33-40: COALESCE(SUM(ABS(COALESCE(new_size_bytes, 0) -
\* COALESCE(old_size_bytes, 0))), 0)::bigint
SizeOf(rows, t) == SumAbsDelta({r \in rows : r.change_type = t})

\* data.rs 130: size as f64 / 1024.0 / 1024.0. The model keeps the value in
\* units of 1/1048576 MB, so that 0 stands for 0.0.
ToMb(bytes) == bytes

\* data.rs 116-170: the row the UPDATE of finalize_scan writes; the map is
\* serialised (147) as it is handed in.
FinalRow(row, rows, meta) ==
  [row EXCEPT
     !.finished = TRUE,
     !.total_paths_count = meta.total_files_processed,
     !.added_files_count = CountOf(rows, "added"),
     !.modified_files_count = CountOf(rows, "modified"),
     !.removed_files_count = CountOf(rows, "deleted"),
     !.new_data_mb = ToMb(SizeOf(rows, "added")),
     !.modified_data_mb = ToMb(SizeOf(rows, "modified")),
     !.deleted_data_mb = ToMb(SizeOf(rows, "deleted")),
     !.scan_metadata = <<meta>>]

\* data.rs 172-199: after the UPDATE finalize_scan inserts the scan id, the
\* completion time, the counts and the sizes into its map and logs it.
LoggedMetadata(meta) ==
  [k \in MetaKeys |-> IF k \in FinalizeKeys THEN 1 ELSE meta[k]]

\* data::finalize_scan: the six aggregate queries, then UPDATE scan_runs SET
\* finished_at, total_paths_count, ... WHERE scan_id = $10; any failure
\* returns before the UPDATE takes effect.
MainFinalize ==
  /\ mainPc = "finalize"
  /\ \E ok \in BOOLEAN :
       /\ opLog' = Append(opLog, <<"finalize", ok>>)
       /\ IF ok
          THEN /\ scanRun' = FinalRow(scanRun, fileChanges, metadata)
               /\ metadata' = LoggedMetadata(metadata)
               /\ mainPc' = "remove"
          ELSE /\ mainPc' = "failed"
               /\ UNCHANGED <<scanRun, metadata>>
  /\ UNCHANGED <<envVars, staging, deltaDone, fileChanges, coVars,
                 senders, chan, rxAlive, counter, done, wrVars, monVars,
                 wkVars, sent, sentBy>>

\* Variant: the removal reports success and leaves the file.
MainRemove_KeepFile ==
  /\ mainPc = "remove"
  /\ \E ok \in BOOLEAN : opLog' = Append(opLog, <<"remove", ok>>)
  /\ mainPc' = "done"
  /\ UNCHANGED <<envVars, scanRun, staging, deltaDone, fileChanges, metadata,
                 coVars, senders, chan, rxAlive, counter, done, wrVars,
                 monVars, wkVars, sent, sentBy>>

\* std::fs::remove_file(&output_tsv_file): a failure is only logged.
MainRemove ==
  /\ mainPc = "remove"
  /\ \E ok \in BOOLEAN :
       /\ opLog' = Append(opLog, <<"remove", ok>>)
       /\ IF ok
          THEN /\ fileExists' = FALSE
               /\ file' = <<>>
          ELSE UNCHANGED <<fileExists, file>>
  /\ mainPc' = "done"
  /\ UNCHANGED <<envVars, scanRun, staging, deltaDone, fileChanges, metadata,
                 coVars, senders, chan, rxAlive, counter, done, wrPc, buf,
                 ioFailed, monVars, wkVars, sent, sentBy>>

\* ---------------------------------------- the coordinator (walk_directory)
\* The steps of walk_directory in program order.
AfterAwait == "drop_tx"

\* crawler.rs 15-20: the two channels, the counter and the done flag.
CoBegin ==
  /\ mainPc = "walk"
  /\ coPc = "idle"
  /\ senders' = {Tx}
  /\ rxAlive' = TRUE
  /\ chan' = <<>>
  /\ counter' = 0
  /\ done' = FALSE
  /\ coPc' = "spawn_writer"
  /\ UNCHANGED <<envVars, mainVars, result, wrVars, monVars, wkVars, sent, sentBy>>

\* crawler.rs 23-40: std::thread::spawn of the writer
CoSpawnWriter ==
  /\ coPc = "spawn_writer"
  /\ wrPc' = "open"
  /\ coPc' = "spawn_progress"
  /\ UNCHANGED <<envVars, mainVars, result, senders, chan, rxAlive, counter, done,
                 buf, file, fileExists, ioFailed, monVars, wkVars, sent, sentBy>>

\* crawler.rs 43-84: the ticker and std::thread::spawn of the progress thread
CoSpawnProgress ==
  /\ coPc = "spawn_progress"
  /\ monPc' = "select"
  /\ coPc' = "spawn_walk"
  /\ UNCHANGED <<envVars, mainVars, result, senders, chan, rxAlive, counter, done,
                 wrVars, tickPending, nticks, lastCnt, emitLog, monExits,
                 wkVars, sent, sentBy>>

\* crawler.rs 87-95: tx2 = tx.clone(), tokio::task::spawn_blocking
CoSpawnWalk ==
  /\ coPc = "spawn_walk"
  /\ senders' = senders \cup {Tx2}
  /\ wkPc' = "start"
  /\ coPc' = "await_walk"
  /\ UNCHANGED <<envVars, mainVars, result, chan, rxAlive, counter, done, wrVars,
                 monVars, pending, wpc, wline, sent, sentBy>>

\* Variant: the walk task is spawned but not awaited.
CoAwaitWalk_NoAwait ==
  /\ coPc = "await_walk"
  /\ coPc' = AfterAwait
  /\ UNCHANGED <<envVars, mainVars, result, senders, chan, rxAlive, counter, done,
                 wrVars, monVars, wkVars, sent, sentBy>>

\* crawler.rs 148: .await? returns once the walk task has finished
CoAwaitWalk ==
  /\ coPc = "await_walk"
  /\ wkPc = "finished"
  /\ coPc' = AfterAwait
  /\ UNCHANGED <<envVars, mainVars, result, senders, chan, rxAlive, counter, done,
                 wrVars, monVars, wkVars, sent, sentBy>>

\* Variant: the coordinator keeps tx (no drop(tx) before the joins).
CoDropTx_KeepTx ==
  /\ coPc = "drop_tx"
  /\ done' = TRUE
  /\ coPc' = "stop_send"
  /\ UNCHANGED <<envVars, mainVars, result, senders, chan, rxAlive, counter,
                 wrVars, monVars, wkVars, sent, sentBy>>

\* crawler.rs 152-156: drop(tx); done.store(true); then stop_tx.send(())
\* blocks on the zero-capacity channel until the progress thread takes it.
CoDropTx ==
  /\ coPc = "drop_tx"
  /\ senders' = senders \ {Tx}
  /\ done' = TRUE
  /\ coPc' = "stop_send"
  /\ UNCHANGED <<envVars, mainVars, result, chan, rxAlive, counter, wrVars,
                 monVars, wkVars, sent, sentBy>>

\* crawler.rs 161: let _ = progress_handle.join()
CoJoinProgress ==
  /\ coPc = "join_progress"
  /\ monPc = "done"
  /\ coPc' = "join_writer"
  /\ UNCHANGED <<envVars, mainVars, result, senders, chan, rxAlive, counter, done,
                 wrVars, monVars, wkVars, sent, sentBy>>

\* Variant: walk_directory does not join the writer thread.
CoJoinWriter_NoJoin ==
  /\ coPc = "join_writer"
  /\ coPc' = "final_stats"
  /\ UNCHANGED <<envVars, mainVars, result, senders, chan, rxAlive, counter, done,
                 wrVars, monVars, wkVars, sent, sentBy>>

\* crawler.rs 162: let _ = writer_handle.join(); a panic of the writer is the
\* Err that `let _` discards.
CoJoinWriter ==
  /\ coPc = "join_writer"
  /\ wrPc \in {"done", "panicked"}
  /\ coPc' = "final_stats"
  /\ UNCHANGED <<envVars, mainVars, result, senders, chan, rxAlive, counter, done,
                 wrVars, monVars, wkVars, sent, sentBy>>

\* crawler.rs 165-190: total = counter.load(); the metadata map; Ok(metadata)
CoFinalStats ==
  /\ coPc = "final_stats"
  /\ metadata' = [k \in MetaKeys |->
                    IF k = "total_files_processed" THEN counter
                    ELSE IF k \in CrawlKeys THEN 1 ELSE Null]
  /\ result' = "ok"
  /\ coPc' = "returned"
  /\ UNCHANGED <<envVars, mainPc, scanRun, staging, deltaDone, fileChanges,
                 opLog, senders, chan, rxAlive, counter, done, wrVars, monVars,
                 wkVars, sent, sentBy>>


\* -------------------------------------------- the writer thread (23-40)
\* crawler.rs 27-33: create_dir_all(p).unwrap(), File::create(..).unwrap().
\* A failure panics the thread: rx is dropped with whatever the channel holds.
WriterOpen ==
  /\ wrPc = "open"
  /\ \E ok \in BOOLEAN :
       IF ok
       THEN /\ fileExists' = TRUE
            /\ file' = <<>>
            /\ wrPc' = "loop"
            /\ UNCHANGED <<rxAlive, chan, ioFailed>>
       ELSE /\ wrPc' = "panicked"
            /\ rxAlive' = FALSE
            /\ chan' = <<>>
            /\ ioFailed' = TRUE
            /\ UNCHANGED <<fileExists, file>>
  /\ UNCHANGED <<envVars, mainVars, coVars, senders, counter, done, buf, monVars,
                 wkVars, sent, sentBy>>

\* Variant: the writer puts a new line in front of the lines it holds.
WriterWrite_Prepend ==
  /\ wrPc = "loop"
  /\ chan # <<>>
  /\ chan' = Tail(chan)
  /\ \E how \in {"buffer", "spill", "fail"} :
       CASE how = "buffer" -> /\ buf' = <<Head(chan)>> \o buf
                              /\ UNCHANGED <<file, ioFailed>>
         [] how = "spill"  -> /\ file' = file \o buf
                              /\ buf' = <<Head(chan)>>
                              /\ UNCHANGED ioFailed
         [] how = "fail"   -> /\ ioFailed' = TRUE
                              /\ UNCHANGED <<buf, file>>
  /\ UNCHANGED <<envVars, mainVars, coVars, senders, rxAlive, counter, done, wrPc,
                 fileExists, monVars, wkVars, sent, sentBy>>

\* crawler.rs 35-36: one iteration of `for line in rx`:
\* let _ = out.write_all(line.as_bytes()). The BufWriter either takes the
\* line into its buffer, or first spills the buffer to the file; a failing
\* spill is an Err that `let _` discards, and the line is not taken.
WriterWrite ==
  /\ wrPc = "loop"
  /\ chan # <<>>
  /\ chan' = Tail(chan)
  /\ \E how \in {"buffer", "spill", "fail"} :
       CASE how = "buffer" -> /\ buf' = Append(buf, Head(chan))
                              /\ UNCHANGED <<file, ioFailed>>
         [] how = "spill"  -> /\ file' = file \o buf
                              /\ buf' = <<Head(chan)>>
                              /\ UNCHANGED ioFailed
         [] how = "fail"   -> /\ ioFailed' = TRUE
                              /\ UNCHANGED <<buf, file>>
  /\ UNCHANGED <<envVars, mainVars, coVars, senders, rxAlive, counter, done, wrPc,
                 fileExists, monVars, wkVars, sent, sentBy>>

\* Variant: the writer leaves its loop on the done flag, not on disconnection.
WriterEof_OnDoneFlag ==
  /\ wrPc = "loop"
  /\ chan = <<>>
  /\ done
  /\ wrPc' = "flush"
  /\ UNCHANGED <<envVars, mainVars, coVars, senders, chan, rxAlive, counter, done,
                 buf, file, fileExists, ioFailed, monVars, wkVars, sent, sentBy>>

\* crawler.rs 35-37: the loop ends when recv reports the channel disconnected.
WriterEof ==
  /\ wrPc = "loop"
  /\ RecvDisconnected
  /\ wrPc' = "flush"
  /\ UNCHANGED <<envVars, mainVars, coVars, senders, chan, rxAlive, counter, done,
                 buf, file, fileExists, ioFailed, monVars, wkVars, sent, sentBy>>

\* crawler.rs 38-39: let _ = out.flush(); then the closure ends: out and rx
\* are dropped, the file is closed. A failing flush loses the buffered lines.
WriterFlush ==
  /\ wrPc = "flush"
  /\ \E ok \in BOOLEAN :
       IF ok
       THEN /\ file' = file \o buf
            /\ UNCHANGED ioFailed
       ELSE /\ ioFailed' = TRUE
            /\ UNCHANGED file
  /\ buf' = <<>>
  /\ rxAlive' = FALSE
  /\ wrPc' = "done"
  /\ UNCHANGED <<envVars, mainVars, coVars, senders, chan, counter, done,
                 fileExists, monVars, wkVars, sent, sentBy>>

\* ------------------------------------------ the progress thread (43-84)
\* The ticker channel (crossbeam_channel::tick) delivers one tick per interval
\* and holds at most one.
Timer ==
  /\ monPc = "select"
  /\ ~tickPending
  /\ nticks < MaxTicks
  /\ tickPending' = TRUE
  /\ nticks' = nticks + 1
  /\ UNCHANGED <<envVars, mainVars, coVars, senders, chan, rxAlive, counter, done,
                 wrVars, monPc, lastCnt, emitLog, monExits, wkVars, sent, sentBy>>

\* The coordinator is blocked in stop_tx.send(()): the stop has been issued.
StopIssued == coPc = "stop_send"

\* Variant: the tick arm also runs once the thread has taken the stop.
MonitorTick_AfterBreak ==
  /\ monPc \in {"select", "done"}
  /\ tickPending
  /\ tickPending' = FALSE
  /\ emitLog' = Append(emitLog, <<counter, StopIssued>>)
  /\ lastCnt' = counter
  /\ UNCHANGED <<envVars, mainVars, coVars, senders, chan, rxAlive, counter, done,
                 wrVars, monPc, nticks, monExits, wkVars, sent, sentBy>>

\* crawler.rs 60-80: the arm recv(ticker): load the counter, log the progress
\* line, last_cnt = total. select! takes this arm whenever a tick is ready,
\* also when the arm recv(stop_rx) is ready too (the choice is random).
MonitorTick ==
  /\ monPc = "select"
  /\ tickPending
  /\ tickPending' = FALSE
  /\ emitLog' = Append(emitLog, <<counter, StopIssued>>)
  /\ lastCnt' = counter
  /\ UNCHANGED <<envVars, mainVars, coVars, senders, chan, rxAlive, counter, done,
                 wrVars, monPc, nticks, monExits, wkVars, sent, sentBy>>

\* crawler.rs 56-58 with 157: the rendezvous on the zero-capacity stop channel:
\* the arm recv(stop_rx) fires, stop_tx.send returns, the thread breaks out.
MonitorStop ==
  /\ monPc = "select"
  /\ StopIssued
  /\ monPc' = "done"
  /\ monExits' = monExits + 1
  /\ coPc' = "join_progress"
  /\ UNCHANGED <<envVars, mainVars, result, senders, chan, rxAlive, counter, done,
                 wrVars, tickPending, nticks, lastCnt, emitLog, wkVars, sent, sentBy>>

\* ------------------------------------- the walk task and its workers (95-147)
\* crawler.rs 96-99: WalkBuilder::new(root).build_parallel().run(..). The
\* walker turns the root path into an entry: when that fails (the root does
\* not exist) it hands the Err to a visitor and returns, starting no worker;
\* otherwise it builds one visitor per worker (tx2.clone()) with the root as
\* the first piece of work.
WalkStart ==
  /\ wkPc = "start"
  /\ IF kind[Root] = "err"
     THEN /\ wkPc' = "drop_tx2"
          /\ UNCHANGED <<senders, pending, wpc>>
     ELSE /\ wkPc' = "run"
          /\ senders' = senders \cup {WorkerTx(w) : w \in Workers}
          /\ pending' = {Root}
          /\ wpc' = [w \in Workers |-> "idle"]
  /\ UNCHANGED <<envVars, mainVars, coVars, chan, rxAlive, counter, done, wrVars,
                 monVars, wline, sent, sentBy>>

\* Variant: the counter is incremented for every entry the visitor is handed.
WorkerVisit_CountEveryEntry(w, e) ==
  /\ wkPc = "run"
  /\ wpc[w] = "idle"
  /\ e \in pending
  /\ pending' = (pending \ {e}) \cup
                  (IF kind[e] = "dir" THEN Children(e) ELSE {})
  /\ counter' = counter + 1
  /\ IF ShouldEmit(e)
     THEN /\ wpc' = [wpc EXCEPT ![w] = "send"]
          /\ wline' = [wline EXCEPT ![w] = e]
     ELSE UNCHANGED <<wpc, wline>>
  /\ UNCHANGED <<envVars, mainVars, coVars, senders, chan, rxAlive, done, wrVars,
                 monVars, wkPc, sent, sentBy>>

\* crawler.rs 102-134,140: the visitor on one entry, up to the fetch_add. The
\* walker then reads a directory and queues its entries.
WorkerVisit(w, e) ==
  /\ wkPc = "run"
  /\ wpc[w] = "idle"
  /\ e \in pending
  /\ pending' = (pending \ {e}) \cup
                  (IF kind[e] = "dir" THEN Children(e) ELSE {})
  /\ IF ShouldEmit(e)
     THEN /\ counter' = counter + 1
          /\ wpc' = [wpc EXCEPT ![w] = "send"]
          /\ wline' = [wline EXCEPT ![w] = e]
     ELSE UNCHANGED <<counter, wpc, wline>>
  /\ UNCHANGED <<envVars, mainVars, coVars, senders, chan, rxAlive, done, wrVars,
                 monVars, wkPc, sent, sentBy>>

\* crawler.rs 135: let _ = tx.send(line). The channel is unbounded: the send
\* never blocks; with the Receiver dropped it is an Err that `let _` discards.
WorkerSend(w) ==
  /\ wpc[w] = "send"
  /\ sent' = Append(sent, Line(wline[w]))
  /\ sentBy' = Append(sentBy, w)
  /\ chan' = IF rxAlive THEN Append(chan, Line(wline[w])) ELSE chan
  /\ wpc' = [wpc EXCEPT ![w] = "idle"]
  /\ wline' = [wline EXCEPT ![w] = 0]
  /\ UNCHANGED <<envVars, mainVars, coVars, senders, rxAlive, counter, done,
                 wrVars, monVars, wkPc, pending>>

\* A worker ends when no work is left and no worker is busy; its visitor, and
\* with it its clone of the sender, is dropped.
WorkerExit(w) ==
  /\ wpc[w] = "idle"
  /\ pending = {}
  /\ \A v \in Workers : wpc[v] # "send"
  /\ wpc' = [wpc EXCEPT ![w] = "done"]
  /\ senders' = senders \ {WorkerTx(w)}
  /\ UNCHANGED <<envVars, mainVars, coVars, chan, rxAlive, counter, done, wrVars,
                 monVars, wkPc, pending, wline, sent, sentBy>>

\* run(..) returns when every worker has ended.
WalkJoin ==
  /\ wkPc = "run"
  /\ \A w \in Workers : wpc[w] = "done"
  /\ wkPc' = "drop_tx2"
  /\ UNCHANGED <<envVars, mainVars, coVars, senders, chan, rxAlive, counter, done,
                 wrVars, monVars, pending, wpc, wline, sent, sentBy>>

\* crawler.rs 145-146: drop(tx2); done2.store(true)
WalkFinish ==
  /\ wkPc = "drop_tx2"
  /\ senders' = senders \ {Tx2}
  /\ done' = TRUE
  /\ wkPc' = "finished"
  /\ UNCHANGED <<envVars, mainVars, coVars, chan, rxAlive, counter, wrVars,
                 monVars, pending, wpc, wline, sent, sentBy>>

\* ------------------------------------------------- a panic in the walk task
\* crawler.rs 95-99: the closure of spawn_blocking panics inside run(..): the
\* walker spawns its worker threads in a thread scope, where a thread that
\* cannot be spawned is a panic, raised at once when no worker runs yet and
\* otherwise when the workers that did start have ended. Unwinding drops
\* tx2; the store to done2 at line 146 is never reached.
WalkPanic ==
  /\ \/ wkPc = "start"
     \/ wkPc = "run" /\ \A w \in Workers : wpc[w] = "done"
  /\ wkPc' = "panicked"
  /\ senders' = senders \ {Tx2}
  /\ UNCHANGED <<envVars, mainVars, coVars, chan, rxAlive, counter, done,
                 wrVars, monVars, pending, wpc, wline, sent, sentBy>>

\* Variant: the record sender tx outlives the failed call.
CoAwaitFailed_KeepTx ==
  /\ coPc = "await_walk"
  /\ wkPc = "panicked"
  /\ result' = "err"
  /\ coPc' = "returned"
  /\ UNCHANGED <<envVars, mainVars, senders, chan, rxAlive, counter, done,
                 wrVars, monVars, wkVars, sent, sentBy>>

\* crawler.rs 148: .await? on a panicked task is Err(JoinError): `?` returns
\* from walk_directory at once. Its locals are dropped: tx and stop_tx go,
\* the two thread handles are dropped without a join.
CoAwaitFailed ==
  /\ coPc = "await_walk"
  /\ wkPc = "panicked"
  /\ result' = "err"
  /\ coPc' = "returned"
  /\ senders' = senders \ {Tx}
  /\ UNCHANGED <<envVars, mainVars, chan, rxAlive, counter, done, wrVars,
                 monVars, wkVars, sent, sentBy>>

\* stop_tx was dropped without a send: the stop channel is disconnected.
StopDisconnected == coPc = "returned" /\ result = "err"

\* crawler.rs 56-58: recv(stop_rx) is ready with Err on a disconnected
\* channel; the arm ignores the value and breaks.
MonitorDisconnected ==
  /\ monPc = "select"
  /\ StopDisconnected
  /\ monPc' = "done"
  /\ monExits' = monExits + 1
  /\ UNCHANGED <<envVars, mainVars, coVars, senders, chan, rxAlive, counter,
                 done, wrVars, tickPending, nticks, lastCnt, emitLog, wkVars,
                 sent, sentBy>>

\* ------------------------------------------------------------ specification
Next ==
  \/ MainStartScan
  \/ MainWalkReturned
  \/ MainLoad
  \/ MainSql
  \/ MainClear
  \/ MainFinalize
  \/ MainRemove
  \/ CoBegin
  \/ CoSpawnWriter
  \/ CoSpawnProgress
  \/ CoSpawnWalk
  \/ CoAwaitWalk
  \/ CoDropTx
  \/ CoJoinProgress
  \/ CoJoinWriter
  \/ CoFinalStats
  \/ WriterOpen
  \/ WriterWrite
  \/ WriterEof
  \/ WriterFlush
  \/ Timer
  \/ MonitorTick
  \/ MonitorStop
  \/ WalkStart
  \/ \E w \in Workers : \E e \in Entries : WorkerVisit(w, e)
  \/ \E w \in Workers : WorkerSend(w)
  \/ \E w \in Workers : WorkerExit(w)
  \/ WalkJoin
  \/ WalkFinish

Spec == Init /\ [][Next]_vars


\* The scheduling the code relies on: every thread that can take a step
\* eventually takes one; select! chooses at random among its ready arms, so
\* the arm recv(stop_rx), ready from the moment the coordinator blocks in
\* stop_tx.send until it is taken, is eventually taken. The ticker is under no
\* obligation to fire.
MainStep == MainStartScan \/ MainWalkReturned \/ MainLoad \/ MainSql
              \/ MainClear \/ MainFinalize \/ MainRemove
CoStep == CoBegin \/ CoSpawnWriter \/ CoSpawnProgress \/ CoSpawnWalk
            \/ CoAwaitWalk \/ CoDropTx \/ CoJoinProgress \/ CoJoinWriter
            \/ CoFinalStats
WriterStep == WriterOpen \/ WriterWrite \/ WriterEof \/ WriterFlush
WalkStep == WalkStart \/ WalkJoin \/ WalkFinish
WorkerStep(w) == (\E e \in Entries : WorkerVisit(w, e)) \/ WorkerSend(w)
                   \/ WorkerExit(w)

Fairness ==
  /\ WF_vars(MainStep)
  /\ WF_vars(CoStep)
  /\ WF_vars(WriterStep)
  /\ WF_vars(MonitorTick)
  /\ WF_vars(MonitorStop)
  /\ WF_vars(WalkStep)
  /\ \A w \in Workers : WF_vars(WorkerStep(w))

FairSpec == Spec /\ Fairness

\* The single run, with the walk task allowed to panic.
PanicNext ==
  \/ Next
  \/ WalkPanic
  \/ CoAwaitFailed
  \/ MonitorDisconnected

PanicSpec == Init /\ [][PanicNext]_vars

\* The threads are scheduled; the early return of walk_directory and the
\* break of the progress thread happen when they can.
PanicFairSpec ==
  PanicSpec /\ Fairness /\ WF_vars(CoAwaitFailed) /\ WF_vars(MonitorDisconnected)

\* --------------------------------------- two orchestrator runs, one store
\* Two processes run main of standalone.rs against the same database; the
\* crawl of each is taken as one step that leaves an artifact of up to
\* MaxRows lines, each carrying the scan id the crawl was given.
soloVars == <<kind, fmtVars, mainPc, scanRun, deltaDone, metadata, fileChanges, opLog,
              scanId, prev, coVars, senders, chan, rxAlive, counter, done,
              wrVars, monVars, wkVars, sent, sentBy>>

\* standalone.rs 66: temp_dir().join(format!("scan_{}.tsv", scan_id)): one
\* path per scan id (tmpFiles is indexed by it).
ArtifactOf(id) == id

\* Staging rows carrying scan id `id`.
RowsOf(rows, id) == SelectSeq(rows, LAMBDA x : x.scan_id = id)

\* An artifact of n lines written by a crawl with scan id `id`.
ArtifactLines(n, id) == [i \in 1..n |-> [entry |-> i, scan_id |-> id]]

NoFile == [exists |-> FALSE, lines |-> <<>>]

\* standalone.rs 61-66: start_scan inserts a row and returns its scan id, a
\* fresh one for every INSERT.
TwoStartScan(r) ==
  /\ orchPc[r] = "idle"
  /\ scanTable' = Append(scanTable, OpenRow)
  /\ tmpFiles' = Append(tmpFiles, NoFile)
  /\ orchId' = [orchId EXCEPT ![r] = Len(scanTable) + 1]
  /\ orchPc' = [orchPc EXCEPT ![r] = "walk"]
  /\ UNCHANGED <<soloVars, staging, orchLoaded, orchSeen>>

\* standalone.rs 70-80: walk_directory(root, interval, scan_id, path): the
\* writer creates (truncates) the file at the run's path and writes the lines.
TwoCrawl(r) ==
  /\ orchPc[r] = "walk"
  /\ \E n \in 0..MaxRows :
       tmpFiles' = [tmpFiles EXCEPT ![ArtifactOf(orchId[r])] =
                      [exists |-> TRUE, lines |-> ArtifactLines(n, orchId[r])]]
  /\ orchPc' = [orchPc EXCEPT ![r] = "load"]
  /\ UNCHANGED <<soloVars, staging, orchId, orchLoaded, orchSeen, scanTable>>

\* standalone.rs 88: load_tsv_file(path): COPY of the file's lines.
TwoLoad(r) ==
  /\ orchPc[r] = "load"
  /\ \E ok \in BOOLEAN :
       IF ok /\ tmpFiles[ArtifactOf(orchId[r])].exists
       THEN /\ staging' = staging \o tmpFiles[ArtifactOf(orchId[r])].lines
            /\ orchLoaded' = [orchLoaded EXCEPT
                                ![r] = tmpFiles[ArtifactOf(orchId[r])].lines]
            /\ orchPc' = [orchPc EXCEPT ![r] = "sql"]
       ELSE /\ orchPc' = [orchPc EXCEPT ![r] = "failed"]
            /\ UNCHANGED <<staging, orchLoaded>>
  /\ UNCHANGED <<soloVars, orchId, orchSeen, scanTable, tmpFiles>>

\* standalone.rs 93-109: the delta SQL with the parameter scan_id: it reads
\* the staging rows of that scan id.
TwoSql(r) ==
  /\ orchPc[r] = "sql"
  /\ \E ok \in BOOLEAN :
       IF ok
       THEN /\ orchSeen' = [orchSeen EXCEPT ![r] = RowsOf(staging, orchId[r])]
            /\ orchPc' = [orchPc EXCEPT ![r] = "clear"]
       ELSE /\ orchPc' = [orchPc EXCEPT ![r] = "failed"]
            /\ UNCHANGED orchSeen
  /\ UNCHANGED <<soloVars, staging, orchId, orchLoaded, scanTable, tmpFiles>>

\* standalone.rs 112: clear_staging(scan_id)?
TwoClear(r) ==
  /\ orchPc[r] = "clear"
  /\ \E ok \in BOOLEAN :
       IF ok
       THEN /\ staging' = PurgeRows(staging, orchId[r])
            /\ orchPc' = [orchPc EXCEPT ![r] = "finalize"]
       ELSE /\ orchPc' = [orchPc EXCEPT ![r] = "failed"]
            /\ UNCHANGED staging
  /\ UNCHANGED <<soloVars, orchId, orchLoaded, orchSeen, scanTable, tmpFiles>>

\* standalone.rs 119: finalize_scan(scan_id, metadata)?: UPDATE ... WHERE
\* scan_id = $10
TwoFinalize(r) ==
  /\ orchPc[r] = "finalize"
  /\ \E ok \in BOOLEAN :
       IF ok
       THEN /\ scanTable' = [scanTable EXCEPT ![orchId[r]].finished = TRUE]
            /\ orchPc' = [orchPc EXCEPT ![r] = "remove"]
       ELSE /\ orchPc' = [orchPc EXCEPT ![r] = "failed"]
            /\ UNCHANGED scanTable
  /\ UNCHANGED <<soloVars, staging, orchId, orchLoaded, orchSeen, tmpFiles>>

\* standalone.rs 123: remove_file(path)
TwoRemove(r) ==
  /\ orchPc[r] = "remove"
  /\ \E ok \in BOOLEAN :
       IF ok
       THEN tmpFiles' = [tmpFiles EXCEPT ![ArtifactOf(orchId[r])] = NoFile]
       ELSE UNCHANGED tmpFiles
  /\ orchPc' = [orchPc EXCEPT ![r] = "done"]
  /\ UNCHANGED <<soloVars, staging, orchId, orchLoaded, orchSeen, scanTable>>

TwoInit ==
  /\ kind = [e \in Entries |-> IF e = Root THEN "dir" ELSE "absent"]
  /\ mainPc = "start_scan"
  /\ scanId = 0
  /\ StoreInit
  /\ CrawlInit
  /\ prev = NoPrev
  /\ TwoIdle
  /\ FmtIdle

TwoNext ==
  \E r \in Runs :
    \/ TwoStartScan(r)
    \/ TwoCrawl(r)
    \/ TwoLoad(r)
    \/ TwoSql(r)
    \/ TwoClear(r)
    \/ TwoFinalize(r)
    \/ TwoRemove(r)

TwoSpec == TwoInit /\ [][TwoNext]_vars

\* ------------------------------------------ the crawl run twice on one tree
\* The crawler binary (bin/submodules/crawler.rs) calls walk_directory with
\* the scan id and the output path of its command line; it is run once with
\* scan id ScanId and then again, on the same tree, with another scan id and
\* another output path.
SecondScanId == ScanId + 1

EntriesOf(lines) == {lines[i].entry : i \in 1..Len(lines)}

\* walk_directory and its threads.
CrawlNext ==
  \/ CoBegin
  \/ CoSpawnWriter
  \/ CoSpawnProgress
  \/ CoSpawnWalk
  \/ CoAwaitWalk
  \/ CoDropTx
  \/ CoJoinProgress
  \/ CoJoinWriter
  \/ CoFinalStats
  \/ WriterOpen
  \/ WriterWrite
  \/ WriterEof
  \/ WriterFlush
  \/ Timer
  \/ MonitorTick
  \/ MonitorStop
  \/ WalkStart
  \/ \E w \in Workers : \E e \in Entries : WorkerVisit(w, e)
  \/ \E w \in Workers : WorkerSend(w)
  \/ \E w \in Workers : WorkerExit(w)
  \/ WalkJoin
  \/ WalkFinish

\* submodules/crawler.rs 56-67: the first process has ended after
\* walk_directory returned; a new process starts with the other scan id.
\* What the first crawl sent and wrote is kept in prev.
CrawlAgain ==
  /\ coPc = "returned"
  /\ ~prev.ran
  /\ prev' = [ran |-> TRUE, sent |-> EntriesOf(sent),
              file |-> [i \in 1..Len(file) |-> file[i].entry],
              ioFailed |-> ioFailed]
  /\ scanId' = SecondScanId
  /\ coPc' = "idle"
  /\ result' = "none"
  /\ senders' = {}
  /\ chan' = <<>>
  /\ rxAlive' = FALSE
  /\ counter' = 0
  /\ done' = FALSE
  /\ wrPc' = "unborn"
  /\ buf' = <<>>
  /\ file' = <<>>
  /\ fileExists' = FALSE
  /\ monPc' = "unborn"
  /\ tickPending' = FALSE
  /\ nticks' = 0
  /\ lastCnt' = 0
  /\ wkPc' = "unborn"
  /\ pending' = {}
  /\ wpc' = [w \in Workers |-> "unborn"]
  /\ wline' = [w \in Workers |-> 0]
  /\ sent' = <<>>
  /\ sentBy' = <<>>
  /\ ioFailed' = FALSE
  /\ emitLog' = <<>>
  /\ monExits' = 0
  /\ UNCHANGED <<kind, mainVars, twoVars, fmtVars>>

TwiceInit ==
  /\ TreeInit
  /\ mainPc = "walk"
  /\ scanId = ScanId
  /\ StoreInit
  /\ CrawlInit
  /\ prev = NoPrev
  /\ TwoIdle
  /\ FmtIdle

TwiceNext ==
  \/ CrawlNext
  \/ CrawlAgain

TwiceSpec == TwiceInit /\ [][TwiceNext]_vars

\* ------------------------------------------------------ the split pipeline
\* The three binaries of bin/submodules run one after the other for one scan:
\* start_scan, then crawler and finish_scan with the scan id start_scan
\* logged and the path of the artifact on their command lines.

\* start_scan.rs 51-55: data::start_scan(...)?; Ok(())
SplitStartScan ==
  /\ mainPc = "split_start"
  /\ \E ok \in BOOLEAN :
       /\ opLog' = Append(opLog, <<"start_scan", ok>>)
       /\ IF ok
          THEN /\ scanRun' = OpenRow
               /\ scanId' = ScanId
               /\ mainPc' = "walk"
          ELSE /\ mainPc' = "failed"
               /\ UNCHANGED <<scanRun, scanId>>
  /\ UNCHANGED <<kind, prev, twoVars, fmtVars, staging, deltaDone, fileChanges,
                 metadata, coVars, senders, chan, rxAlive,
                 counter, done, wrVars, monVars, wkVars, sent, sentBy>>

\* crawler.rs (bin) 56-67: walk_directory(...).await.map_err(...)?; Ok(())
SplitCrawlerReturned ==
  /\ mainPc = "walk"
  /\ coPc = "returned"
  /\ opLog' = Append(opLog, <<"walk", result = "ok">>)
  /\ mainPc' = IF result = "ok" THEN "finish_load" ELSE "failed"
  /\ UNCHANGED <<envVars, scanRun, staging, deltaDone, fileChanges, metadata,
                 coVars, senders, chan, rxAlive,
                 counter, done, wrVars, monVars, wkVars, sent, sentBy>>

\* finish_scan.rs 65: data::load_tsv_file(&client, opt.output_tsv_file)?
SplitFinishLoad ==
  /\ mainPc = "finish_load"
  /\ \E ok \in BOOLEAN :
       /\ opLog' = Append(opLog, <<"load", fileExists /\ ok>>)
       /\ IF fileExists /\ ok
          THEN /\ staging' = staging \o file
               /\ mainPc' = "finish_sql"
          ELSE /\ mainPc' = "failed"
               /\ UNCHANGED staging
  /\ UNCHANGED <<envVars, scanRun, deltaDone, fileChanges, metadata,
                 coVars, senders, chan, rxAlive,
                 counter, done, wrVars, monVars, wkVars, sent, sentBy>>

\* finish_scan.rs 71-75: db::execute_sql_template(sql_file, scan_id)?
SplitFinishSql ==
  /\ mainPc = "finish_sql"
  /\ \E ok \in BOOLEAN :
       /\ opLog' = Append(opLog, <<"sql", ok>>)
       /\ IF ok
          THEN /\ deltaDone' = TRUE
               /\ fileChanges' \in DeltaResults
               /\ mainPc' = "finish_clear"
          ELSE /\ mainPc' = "failed"
               /\ UNCHANGED <<deltaDone, fileChanges>>
  /\ UNCHANGED <<envVars, scanRun, staging, metadata,
                 coVars, senders, chan, rxAlive,
                 counter, done, wrVars, monVars, wkVars, sent, sentBy>>

\* Variant: finish_scan goes on to write the scan_runs row.
SplitFinishClear_ThenFinalize ==
  /\ mainPc = "finish_clear"
  /\ \E ok \in BOOLEAN :
       /\ opLog' = Append(opLog, <<"clear", ok>>)
       /\ IF ok
          THEN /\ staging' = PurgeRows(staging, scanId)
               /\ scanRun' = FinalRow(scanRun, fileChanges, metadata)
               /\ mainPc' = "finish_done"
          ELSE /\ mainPc' = "failed"
               /\ UNCHANGED <<staging, scanRun>>
  /\ UNCHANGED <<envVars, deltaDone, fileChanges, metadata,
                 coVars, senders, chan, rxAlive,
                 counter, done, wrVars, monVars, wkVars, sent, sentBy>>

\* finish_scan.rs 79-82: data::clear_staging(&client, opt.scan_id)?; Ok(())
SplitFinishClear ==
  /\ mainPc = "finish_clear"
  /\ \E ok \in BOOLEAN :
       /\ opLog' = Append(opLog, <<"clear", ok>>)
       /\ IF ok
          THEN /\ staging' = PurgeRows(staging, scanId)
               /\ mainPc' = "finish_done"
          ELSE /\ mainPc' = "failed"
               /\ UNCHANGED staging
  /\ UNCHANGED <<envVars, scanRun, deltaDone, fileChanges, metadata,
                 coVars, senders, chan, rxAlive,
                 counter, done, wrVars, monVars, wkVars, sent, sentBy>>

SplitInit ==
  /\ TreeInit
  /\ mainPc = "split_start"
  /\ scanId = 0
  /\ StoreInit
  /\ CrawlInit
  /\ prev = NoPrev
  /\ TwoIdle
  /\ FmtIdle

SplitNext ==
  \/ SplitStartScan
  \/ CrawlNext
  \/ SplitCrawlerReturned
  \/ SplitFinishLoad
  \/ SplitFinishSql
  \/ SplitFinishClear

SplitSpec == SplitInit /\ [][SplitNext]_vars

\* ------------------------------------------------- the format of a line
\* crawler.rs 107-133: the visitor builds the line of an entry with format!
\* from six fields. A text is a sequence of characters; "TAB" and "NL" stand
\* for the characters \t and \n, and a field that holds only digits and
\* punctuation (size, mtime, scan id) is kept as one character.
Tab == "TAB"
Newline == "NL"

\* Characters a file name can hold: any byte but '/' and NUL.
Chars == {"a", ".", Tab, Newline}

FileNames == UNION {[1..n -> Chars] : n \in 1..MaxNameLen}

\* Index of the last '.' of a name, 0 when it has none.
RECURSIVE LastDot(_, _)
LastDot(name, i) ==
  IF i = 0 THEN 0
  ELSE IF name[i] = "." THEN i ELSE LastDot(name, i - 1)

Unknown == <<"u", "n", "k", "n", "o", "w", "n">>

\* crawler.rs 108-112: ent.path().extension().and_then(to_str)
\* .unwrap_or("unknown"): the part of the file name after its last '.', none
\* when the name has no '.' or only a leading one.
Extension(name) ==
  LET d == LastDot(name, Len(name))
  IN  IF d <= 1 THEN Unknown ELSE SubSeq(name, d + 1, Len(name))

\* crawler.rs 129: ent.path().display(): the root joined with the name.
PathOf(name) == <<"r", "/">> \o name

\* crawler.rs 127-132: the six arguments of format!
RecordFields(name) ==
  <<name, Extension(name), PathOf(name), <<"7">>, <<"1970-01-01T00:00:00+00:00">>,
    <<"1">> >>

\* crawler.rs 125-133: "{}" writes the field as it is.
FormatField(f) == f

\* crawler.rs 125-133: format!("{}\t{}\t{}\t{}\t{}\t{}\n", ...)
FormatLine(fields) ==
  FormatField(fields[1]) \o <<Tab>> \o FormatField(fields[2]) \o <<Tab>> \o
  FormatField(fields[3]) \o <<Tab>> \o FormatField(fields[4]) \o <<Tab>> \o
  FormatField(fields[5]) \o <<Tab>> \o FormatField(fields[6]) \o <<Newline>>

\* The pieces of a text between the occurrences of a separator.
RECURSIVE SplitOn(_, _)
SplitOn(text, sep) ==
  IF \A i \in 1..Len(text) : text[i] # sep THEN <<text>>
  ELSE LET k == CHOOSE i \in 1..Len(text) :
                  text[i] = sep /\ \A j \in 1..(i - 1) : text[j] # sep
       IN  <<SubSeq(text, 1, k - 1)>> \o
             SplitOn(SubSeq(text, k + 1, Len(text)), sep)

\* The newline-terminated lines of a text (data.rs 90-97: reader.lines()).
LinesOf(text) ==
  LET pieces == SplitOn(text, Newline)
  IN  IF pieces[Len(pieces)] = <<>> THEN SubSeq(pieces, 1, Len(pieces) - 1)
      ELSE pieces

\* The visitor formats the line of the entry.
FormatRecord ==
  /\ fmtLine = <<>>
  /\ fmtLine' = FormatLine(RecordFields(fmtName))
  /\ UNCHANGED <<kind, mainVars, coVars, senders, chan, rxAlive, counter, done,
                 wrVars, monVars, wkVars, sent, sentBy, scanId, prev, twoVars,
                 fmtName>>

FormatInit ==
  /\ kind = [e \in Entries |-> IF e = Root THEN "file" ELSE "absent"]
  /\ mainPc = "walk"
  /\ scanId = ScanId
  /\ StoreInit
  /\ CrawlInit
  /\ prev = NoPrev
  /\ TwoIdle
  /\ fmtName \in FileNames
  /\ fmtLine = <<>>

FormatNext == FormatRecord

FormatSpec == FormatInit /\ [][FormatNext]_vars

\* ------------------------------------------------------------------ claims
CrawlReturnedOk == coPc = "returned" /\ result = "ok"

\* C1: when walk_directory has returned Ok and no writer I/O operation has
\* failed, the artifact exists until main removes it, nothing is left in the
\* BufWriter, and the lines of the artifact are exactly the bag of the lines
\* the workers handed to tx.send: none lost, none duplicated.
C1_ArtifactIsBagOfSent ==
  (CrawlReturnedOk /\ ~ioFailed) =>
     /\ buf = <<>>
     /\ mainPc # "done" => fileExists
     /\ fileExists => BagOf(file) = BagOf(sent)

\* Two workers have each sent a line and the artifact holds both.
C1_Witness ==
  /\ CrawlReturnedOk /\ ~ioFailed /\ fileExists
  /\ Len(file) >= 2
  /\ \E i, j \in 1..Len(file) : i < j /\ file[i].entry > file[j].entry

\* C2: the traversal hands exactly one line to tx.send for every entry that
\* is a regular file with readable metadata and none for any other entry
\* (never more than that while it runs, exactly that once the walk task has
\* finished), and walk_directory returns Ok.
C2_OneRecordPerRegularFile ==
  /\ \A e \in Entries :
       Count(Line(e), sent) <= (IF kind[e] = "file" THEN 1 ELSE 0)
  /\ wkPc = "finished" =>
       \A e \in Entries :
         Count(Line(e), sent) = (IF kind[e] = "file" THEN 1 ELSE 0)
  /\ coPc = "returned" => result = "ok"

\* walk_directory has returned from a tree with a directory, a regular file
\* and a file whose metadata is unreadable: one line was sent, for the file.
C2_Witness ==
  /\ coPc = "returned"
  /\ \E a, b \in Entries :
       /\ kind[a] = "file" /\ kind[b] = "nometa"
       /\ sent = <<Line(a)>>

\* C3: whenever the writer has left its receive loop (and when it has
\* flushed), the walk task and every worker have finished, no worker holds a
\* line, every Sender (the workers' clones, tx2, tx) is dropped and the
\* channel is empty.
C3_WriterClosesAfterAllSendersDropped ==
  wrPc \in {"flush", "done"} =>
     /\ senders = {}
     /\ chan = <<>>
     /\ wkPc = "finished"
     /\ \A w \in Workers : wpc[w] \in {"unborn", "done"}

\* The writer has flushed after both workers sent a line.
C3_Witness ==
  /\ wrPc = "done"
  /\ \A w \in Workers : wpc[w] = "done"
  /\ Len(sent) >= 2

\* C4 (as claimed): the stop is issued to the progress thread only after the
\* writer has flushed and closed the artifact (or has ended).
C4_StopOnlyAfterWriterClosed ==
  (StopIssued \/ monPc = "done") => wrPc \in {"done", "panicked"}

\* C4 (amended): the stop is issued only after the walk task and every worker
\* have finished and the coordinator has dropped tx; the writer is awaited
\* after the progress thread; the final counters are computed only after both
\* threads have ended.
C4_ShutdownOrder ==
  /\ (StopIssued \/ monPc = "done") =>
        /\ wkPc = "finished"
        /\ \A w \in Workers : wpc[w] \in {"unborn", "done"}
        /\ senders = {}
  /\ coPc \in {"join_writer", "final_stats", "returned"} => monPc = "done"
  /\ coPc \in {"final_stats", "returned"} => wrPc \in {"done", "panicked"}
  /\ metadata.total_files_processed # -1 => coPc = "returned"

\* The stop has been issued while the writer still has lines to drain.
C4_Witness ==
  /\ StopIssued
  /\ wrPc = "loop"
  /\ chan # <<>>

\* C5 (as claimed): no progress line is emitted once the coordinator has
\* issued the stop on the rendezvous channel.
C5_NoEmitAfterStopIssued ==
  \A i \in 1..Len(emitLog) : ~emitLog[i][2]

\* C5 (amended): once the progress thread has taken the stop it emits no
\* progress line and stays out of its loop, which it has left exactly once;
\* and a stop that has been issued is eventually taken.
C5_NoEmitAfterStopTaken ==
  /\ [][monPc = "done" => UNCHANGED <<emitLog, monPc, monExits>>]_vars
  /\ [](monExits = (IF monPc = "done" THEN 1 ELSE 0))
  /\ (StopIssued ~> monPc = "done")

\* The progress thread has stopped with a tick still pending, after emitting
\* a line while the stop was already issued.
C5_Witness ==
  /\ monPc = "done"
  /\ tickPending
  /\ \E i \in 1..Len(emitLog) : emitLog[i][2]

\* C6: under fair scheduling every call of walk_directory returns, with the
\* walk task finished and the writer and the progress thread ended.
C6_Terminates ==
  (coPc = "spawn_writer") ~>
     (/\ coPc = "returned"
      /\ wkPc = "finished"
      /\ wrPc \in {"done", "panicked"}
      /\ monPc = "done")

\* walk_directory has returned after a crawl that sent lines, ticked, and
\* whose writer ran to its flush.
C6_Witness ==
  /\ coPc = "returned"
  /\ wrPc = "done"
  /\ monPc = "done"
  /\ Len(sent) >= 1
  /\ Len(emitLog) >= 1

\* C7 (as claimed): after a writer I/O failure walk_directory does not return
\* Ok and main does not go on to load_tsv_file.
C7_WriterFailureIsFatal ==
  ioFailed =>
     /\ ~CrawlReturnedOk
     /\ mainPc \in {"walk", "failed"}

\* C8 (as claimed): whenever walk_directory has returned Ok, the total it
\* returns as total_files_processed is the number of lines of the artifact.
C8_TotalEqualsArtifactLines ==
  (CrawlReturnedOk /\ mainPc = "walk") =>
     metadata.total_files_processed = Len(file)

\* C9 (as claimed): with a root that does not exist walk_directory returns an
\* error, no worker starts and no line is sent.
C9_MissingRootFails ==
  (kind[Root] = "err" /\ coPc = "returned") =>
     /\ result = "err"
     /\ \A w \in Workers : wpc[w] = "unborn"
     /\ sent = <<>>

\* C10 (as claimed): with a root that does not exist no ScanRun row is
\* created.
C10_NoScanRunForMissingRoot ==
  kind[Root] = "err" => ~scanRun.exists

\* ----------------------------------------------------------------------------
\* The names of the orchestrator's operations, in the order of standalone.rs.
OpOrder == <<"start_scan", "walk", "load", "sql", "clear", "finalize", "remove">>

OpNames == [i \in 1..Len(opLog) |-> opLog[i][1]]

Attempted(op) == \E i \in 1..Len(opLog) : opLog[i][1] = op

Succeeded(op) == \E i \in 1..Len(opLog) : opLog[i] = <<op, TRUE>>

\* C11: the operations of a run happen only in the order start_scan, crawl,
\* load, delta, (purge, finalize write, removal), each at most once; the crawl
\* never starts before the run has its scan id and its scan_runs row; the load
\* is never attempted before walk_directory has returned Ok; the finalize
\* write never happens before the delta computation returned successfully.
C11_PhasesInOrder ==
  /\ Len(opLog) <= Len(OpOrder)
  /\ OpNames = SubSeq(OpOrder, 1, Len(opLog))
  /\ coPc # "idle" => scanId = ScanId /\ scanRun.exists /\ Succeeded("start_scan")
  /\ Attempted("load") => coPc = "returned" /\ result = "ok" /\ Succeeded("walk")
  /\ staging # <<>> => coPc = "returned"
  /\ scanRun.finished => deltaDone /\ Succeeded("sql")
  /\ Attempted("finalize") => Succeeded("sql")

C11_Witness ==
  /\ mainPc = "done"
  /\ scanRun.finished
  /\ OpNames = OpOrder
  /\ sent # <<>>

\* An operation of a phase in which a failure is fatal has failed.
FatalFailure(i) == opLog[i][1] \in {"walk", "load", "sql"} /\ ~opLog[i][2]

\* C12: a fatal failure of the crawl, the load or the delta computation is
\* the last operation of the run: nothing of a later phase is performed, and
\* the scan_runs row stays open, with finished_at and every count NULL.
C12_FailedIsAbsorbing ==
  \A i \in 1..Len(opLog) :
    FatalFailure(i) =>
      /\ i = Len(opLog)
      /\ mainPc = "failed"
      /\ scanRun = OpenRow
      /\ fileChanges = {}

\* The crawl has failed and the run has stopped there, its row still open.
C12_Witness ==
  /\ opLog = <<(<<"start_scan", TRUE>>), (<<"walk", FALSE>>)>>
  /\ mainPc = "failed"
  /\ scanRun.exists
  /\ ~scanRun.finished
  /\ wrPc = "done"

\* The columns finalize_scan sets.
CountColumns ==
  {"total_paths_count", "added_files_count", "modified_files_count",
   "removed_files_count", "new_data_mb", "modified_data_mb", "deleted_data_mb"}

ColumnsNull(row) ==
  /\ ~row.finished
  /\ \A c \in CountColumns : row[c] = Null
  /\ row.scan_metadata = <<>>

ColumnsSet(row) ==
  /\ row.finished
  /\ \A c \in CountColumns : row[c] # Null
  /\ row.scan_metadata # <<>>

\* C13: the scan_runs row of a run goes from open to finalized at most once
\* and is never re-opened: finished_at, the counts and the sizes are NULL
\* from the INSERT until the finalize write, that one write sets them all,
\* and no later step writes the row again.
C13_FinalizedOnce ==
  /\ [](scanRun.exists => ColumnsNull(scanRun) \/ ColumnsSet(scanRun))
  /\ [][/\ scanRun.exists => scanRun'.exists
        /\ scanRun.finished => scanRun' = scanRun
        /\ scanRun' # scanRun =>
              \/ ~scanRun.exists /\ ColumnsNull(scanRun')
              \/ /\ ColumnsNull(scanRun)
                 /\ ColumnsSet(scanRun')
                 /\ mainPc = "finalize"]_vars

\* The row has been finalized and the artifact removed after it.
C13_Witness ==
  /\ ColumnsSet(scanRun)
  /\ Succeeded("remove")
  /\ scanRun.added_files_count = 2
  /\ mainPc = "done"

\* main has got as far as load_tsv_file.
ReachedLoad == mainPc = "load" \/ Attempted("load")

\* C14: in every execution that reaches load_tsv_file the writer thread has
\* ended: the channel is drained, the BufWriter is flushed and dropped, the
\* file is closed; and the rows a successful load stages are the lines of the
\* artifact as the writer left it.
C14_WriterEndedBeforeLoad ==
  /\ ReachedLoad =>
       /\ wrPc \in {"done", "panicked"}
       /\ ~rxAlive
       /\ chan = <<>>
       /\ buf = <<>>
  /\ mainPc = "sql" => staging = file

\* Two lines were written and both have been loaded.
C14_Witness ==
  /\ mainPc = "sql"
  /\ wrPc = "done"
  /\ Len(staging) = 2
  /\ staging = file

Terminated == mainPc \in {"done", "failed"}

Failed(op) == \E i \in 1..Len(opLog) : opLog[i] = <<op, FALSE>>

\* C15: a cleanup failure (the purge of the staging rows, the removal of the
\* artifact) is not fatal: a run in which only cleanup failed ends
\* successfully with its scan_runs row finalized.
C15_CleanupFailureNotFatal ==
  (Terminated /\ (Failed("clear") \/ Failed("remove")) /\ ~Failed("finalize"))
     => mainPc = "done" /\ scanRun.finished

\* C16: in the Finalized step the scan_runs row is written first, the staging
\* rows are purged after it and the artifact is removed last: the purge never
\* precedes the finalize write.
C16_FinalizeBeforePurge ==
  /\ Attempted("clear") => scanRun.finished
  /\ Attempted("remove") => Attempted("clear") /\ scanRun.finished

\* C17 as stated: in every run whose bulk load succeeded the artifact is gone
\* when the run has ended, whatever happened after the load.
C17_ArtifactRemovedAfterLoad ==
  (Terminated /\ Succeeded("load")) => ~fileExists

\* C17: the removal of the artifact is attempted only when every step after
\* the load has succeeded, and the artifact is gone when that removal
\* succeeded; in a run that failed after the load, or whose removal failed,
\* the artifact is still there.
C17_ArtifactRemovedOnSuccess ==
  /\ Attempted("remove") =>
       Succeeded("sql") /\ Succeeded("clear") /\ Succeeded("finalize")
  /\ Succeeded("remove") => ~fileExists
  /\ (Succeeded("load") /\ ~Succeeded("remove")) => fileExists

\* The load succeeded, every later step too, and the artifact is gone.
C17_Witness ==
  /\ mainPc = "done"
  /\ Succeeded("load")
  /\ Succeeded("remove")
  /\ Len(staging) = 0
  /\ sent # <<>>
  /\ ~fileExists

ChangeTypes == {"added", "modified", "deleted"}

\* The columns of scan_runs that hold the count and the size of a category.
CountColumn(t) ==
  CASE t = "added" -> "added_files_count"
    [] t = "modified" -> "modified_files_count"
    [] t = "deleted" -> "removed_files_count"

SizeColumn(t) ==
  CASE t = "added" -> "new_data_mb"
    [] t = "modified" -> "modified_data_mb"
    [] t = "deleted" -> "deleted_data_mb"

\* C19: in a finalized scan_runs row the three counts and the three sizes
\* are never NULL; a category with no row in the delta result has count 0
\* and size 0.0, so a run whose delta result is empty (a scan of an empty
\* directory) is finalized with every count 0 and every size 0.0.
C19_AggregatesNeverNull ==
  scanRun.finished =>
    \A t \in ChangeTypes :
      /\ scanRun[CountColumn(t)] # Null
      /\ scanRun[SizeColumn(t)] # Null
      /\ scanRun[CountColumn(t)] = Cardinality({r \in fileChanges : r.change_type = t})
      /\ scanRun[SizeColumn(t)] >= 0
      /\ (\A r \in fileChanges : r.change_type # t) =>
            scanRun[CountColumn(t)] = 0 /\ scanRun[SizeColumn(t)] = 0

\* An empty directory was scanned and finalized with all six values zero.
C19_Witness ==
  /\ scanRun.finished
  /\ kind[Root] = "dir"
  /\ Children(Root) = {}
  /\ sent = <<>>
  /\ fileChanges = {}
  /\ \A t \in ChangeTypes :
       scanRun[CountColumn(t)] = 0 /\ scanRun[SizeColumn(t)] = 0

\* C18: two runs with distinct scan ids on one store do not interfere: a
\* step of one run leaves the artifact of the other run and the staging rows
\* carrying the other run's scan id as they are, so that the delta
\* computation of every run reads exactly the rows the run has loaded.
C18_RunsDoNotInterfere ==
  /\ [](\A r \in Runs :
         /\ \A q \in Runs \ {r} : orchId[r] # 0 => orchId[r] # orchId[q]
         /\ orchPc[r] \in {"clear", "finalize", "remove", "done"} =>
              orchSeen[r] = orchLoaded[r])
  /\ [][\A q \in Runs :
          (orchPc'[q] = orchPc[q] /\ orchId[q] # 0) =>
             /\ RowsOf(staging', orchId[q]) = RowsOf(staging, orchId[q])
             /\ tmpFiles'[ArtifactOf(orchId[q])] = tmpFiles[ArtifactOf(orchId[q])]]_vars

\* One run has purged its rows and removed its artifact while the rows of the
\* other run wait in the staging table for its delta computation.
C18_Witness ==
  \E r, q \in Runs :
    /\ orchPc[r] = "done"
    /\ Len(orchLoaded[r]) = MaxRows
    /\ ~tmpFiles[ArtifactOf(orchId[r])].exists
    /\ orchPc[q] = "sql"
    /\ Len(orchLoaded[q]) = MaxRows
    /\ staging = orchLoaded[q]
    /\ tmpFiles[ArtifactOf(orchId[q])].exists

Range(f) == {f[i] : i \in DOMAIN f}

\* C20: two crawls of the same tree with different scan ids hand the same
\* set of entries to the channel, whatever the interleaving of the workers,
\* each line carrying the scan id of its own crawl; and when no write or
\* flush failed in either crawl, the two artifacts hold the same set of
\* lines, the scan id and the order of the lines apart.
C20_SameRecordSet ==
  (prev.ran /\ CrawlReturnedOk) =>
     /\ EntriesOf(sent) = prev.sent
     /\ \A i \in 1..Len(sent) : sent[i].scan_id = SecondScanId
     /\ (~ioFailed /\ ~prev.ioFailed) => EntriesOf(file) = Range(prev.file)

\* Both crawls wrote the same two lines, in different orders.
C20_Witness ==
  /\ prev.ran
  /\ CrawlReturnedOk
  /\ ~ioFailed /\ ~prev.ioFailed
  /\ Len(file) = 2
  /\ EntriesOf(file) = Range(prev.file)
  /\ file[1].entry # prev.file[1]

\* C21: whatever characters the file name of an entry holds, the text the
\* visitor builds for it is exactly one newline-terminated line, and that
\* line splits at the tabs into exactly the six fields of the record.
C21_OneWellFormedLine ==
  fmtLine # <<>> =>
    /\ fmtLine[Len(fmtLine)] = Newline
    /\ Len(LinesOf(fmtLine)) = 1
    /\ SplitOn(LinesOf(fmtLine)[1], Tab) = RecordFields(fmtName)

\* Workers that have counted a record and not yet sent it.
InFlight == {w \in Workers : wpc[w] = "send"}

\* C22: the counter never decreases and counts each emitted record exactly
\* once; the totals the progress thread reads at its ticks never decrease
\* from one tick to the next and never exceed the counter, hence not the
\* final total walk_directory returns.
C22_CounterMonotonic ==
  /\ [][counter' \in {counter, counter + 1}]_vars
  /\ [](/\ counter = Len(sent) + Cardinality(InFlight)
        /\ lastCnt <= counter
        /\ \A i \in 1..Len(emitLog) :
             /\ emitLog[i][1] <= counter
             /\ \A j \in 1..Len(emitLog) :
                  i < j => emitLog[i][1] <= emitLog[j][1]
        /\ CrawlReturnedOk =>
             /\ metadata.total_files_processed = Len(sent)
             /\ \A i \in 1..Len(emitLog) :
                  emitLog[i][1] <= metadata.total_files_processed)

\* Two ticks read growing totals, both below the final total.
C22_Witness ==
  /\ CrawlReturnedOk
  /\ Len(emitLog) = 2
  /\ emitLog[1][1] < emitLog[2][1]
  /\ emitLog[2][1] < metadata.total_files_processed

\* The place of a line in a sequence that holds it once.
Pos(seq, x) == CHOOSE i \in 1..Len(seq) : seq[i] = x

\* The lines the writer has written, holds in its BufWriter or has still to
\* receive, in that order.
WriterOrder == file \o buf \o chan

\* C23: the writer writes the lines in the order in which the channel hands
\* them over, which is the order of the sends; so of two records sent by the
\* same worker the one sent first comes first in the artifact.
C23_ReceiptOrder ==
  /\ \A i, j \in 1..Len(WriterOrder) :
       i < j => Pos(sent, WriterOrder[i]) < Pos(sent, WriterOrder[j])
  /\ \A i, j \in 1..Len(sent) :
       (/\ i < j
        /\ sentBy[i] = sentBy[j]
        /\ sent[i] \in Range(file)
        /\ sent[j] \in Range(file)) => Pos(file, sent[i]) < Pos(file, sent[j])

\* One worker has sent two records and the artifact holds them in that order.
C23_Witness ==
  /\ wrPc = "done"
  /\ Len(sent) = 2
  /\ sentBy[1] = sentBy[2]
  /\ file = sent

\* The records of two workers are in the artifact in the reverse of the
\* order in which the walker lists their entries.
C23_CrossWorkerWitness ==
  /\ wrPc = "done"
  /\ Len(file) = 2
  /\ sentBy[1] # sentBy[2]
  /\ file[1].entry > file[2].entry

\* C24: the total_paths_count of a finalized scan_runs row is the number of
\* records persisted for the scan: the lines of the artifact that were
\* loaded into the staging table (the artifact is still there, unchanged,
\* when the row has just been written).
C24_TotalIsPersistedCount ==
  (mainPc = "remove" /\ scanRun.finished) =>
     scanRun.total_paths_count = Len(file)

\* C25: the metadata map stored in the scan_runs row at finalize holds every
\* key the run metadata map gets through the phases: those of the crawl,
\* sql_execution_time_s and hostname, and scan_id, completed_at and the
\* counts and sizes of the categories.
C25_PersistedMetadataComplete ==
  scanRun.finished => KeysOf(scanRun.scan_metadata[1]) = MetaKeys

\* C26: when the walk task has panicked, walk_directory returns the error
\* without sending the stop and without joining the two threads, and both
\* still end: the writer when it has drained the channel, every sender being
\* dropped, and the progress thread through its stop arm, the stop sender
\* being dropped.
C26_ThreadsEndAfterPanic ==
  /\ [](result = "err" =>
          /\ coPc = "returned"
          /\ wkPc = "panicked"
          /\ senders = {}
          /\ \A i \in 1..Len(emitLog) : ~emitLog[i][2]
          /\ (wrPc = "done" /\ ~ioFailed) =>
               chan = <<>> /\ BagOf(file) = BagOf(sent))
  /\ (result = "err") ~>
       (wrPc \in {"done", "panicked"} /\ monPc = "done" /\ chan = <<>>)

\* walk_directory has returned the error while the writer still has a line
\* to take from the channel and the progress thread still waits.
C26_Witness ==
  /\ result = "err"
  /\ coPc = "returned"
  /\ wrPc = "loop"
  /\ chan # <<>>
  /\ monPc = "select"

\* C27: the split pipeline never writes the scan_runs row after start_scan
\* has inserted it: whatever start_scan, crawler and finish_scan have done,
\* the row is open, with finished_at, the counts, the sizes and the metadata
\* NULL.
C27_SplitNeverFinalizes ==
  scanRun.exists => scanRun = OpenRow /\ ColumnsNull(scanRun)

\* The three binaries have succeeded: records were loaded, the delta was
\* computed, the staging rows are purged, and the row is still open.
C27_Witness ==
  /\ mainPc = "finish_done"
  /\ \A op \in {"start_scan", "walk", "load", "sql", "clear"} : Succeeded(op)
  /\ sent # <<>>
  /\ fileChanges # {}
  /\ staging = <<>>
  /\ scanRun.exists
  /\ ColumnsNull(scanRun)
====
